---- MODULE Spec2Model ----
(***************************************************************************)
(* SAVER key generation, key validation and the encrypt / decrypt /        *)
(* verify chain built on the generated keys.                               *)
(*                                                                         *)
(* Group elements of G1, G2 and GT are represented by their discrete       *)
(* logarithm in the scalar field F_q, so that scalar multiplication is a   *)
(* product mod q, the group law is a sum mod q and the pairing             *)
(* e(a*G1gen, b*G2gen) = (a*b)*GTgen is a product mod q.                    *)
(*                                                                         *)
(* keygen, EncryptionKey and DecryptionKey are translated from             *)
(* saver/src/keygen.rs.  chunks_count, decompose, compose, encryption,     *)
(* decryption, decryption verification and the chunked commitment live in  *)
(* modules of the crate that keygen.rs and tests.rs only call; they are    *)
(* written from sections 3 and 4 of the design document.                   *)
(***************************************************************************)
EXTENDS Integers, Naturals, Sequences, FiniteSets, TLC

(* ----------------------------- bounds --------------------------------- *)

\* Seeds of the caller-supplied random number generator: 1..MaxSeed.
MaxSeed == 4

\* g_i vectors handed to keygen have 0..MaxGiLen elements.
MaxGiLen == 4

\* Vectors of a key received from outside have 0..MaxVecLen elements.
MaxVecLen == 3

\* Chunk bit sizes passed by callers: 1..MaxChunkBitSize.
MaxChunkBitSize == 4

(* ------------------------- the scalar field --------------------------- *)

\* Order of the scalar field E::Fr (a small prime standing for the curve's).
q == 7

Fr == 0 .. (q - 1)

FrAdd(a, b) == (a + b) % q

FrMul(a, b) == (a * b) % q

FrNeg(a) == (q - (a % q)) % q

FrSub(a, b) == FrAdd(a, FrNeg(b))

\* Sum of the elements of a sequence of scalars (Iterator::sum::<E::Fr>).
RECURSIVE FrSum(_)
FrSum(xs) == IF xs = << >> THEN 0 ELSE FrAdd(Head(xs), FrSum(Tail(xs)))

\* P.mul(k): scalar multiplication of a group element.
GroupMul(P, k) == FrMul(P, k)

\* The bilinear map e : G1 x G2 -> GT.
Pairing(P, Q) == FrMul(P, Q)

RECURSIVE Pow2(_)
Pow2(k) == IF k = 0 THEN 1 ELSE 2 * Pow2(k - 1)

\* F::size_in_bits(): bit length m of the modulus.
RECURSIVE BitLen(_)
BitLen(x) == IF x = 0 THEN 0 ELSE 1 + BitLen(x \div 2)

size_in_bits == BitLen(q)

\* Width of the u8 that carries a chunk count.
U8 == 256

(* ---------------------- random number generator ----------------------- *)

\* The RngCore the caller passes in is a deterministic stream fixed by its
\* seed; rng holds the generator's internal state.  Streams range over the
\* nonzero scalars.
RngModulus == 31

RngNext(st) == (3 * st) % RngModulus

\* E::Fr::rand(rng): the scalar produced from generator state st.
FrRand(st) == 1 + (st % (q - 1))

\* State of the generator after k draws.
RECURSIVE RngAfter(_, _)
RngAfter(st, k) == IF k = 0 THEN st ELSE RngAfter(RngNext(st), k - 1)

\* The k-th scalar (1-based) drawn from a generator in state st.
RngDraw(st, k) == FrRand(RngAfter(st, k))

(* --------------------------- chunk counting --------------------------- *)

\* chunks_count::<F>(chunk_bit_size): n = ceil(m / b), as u8.
chunks_count(chunk_bit_size) ==
    ((size_in_bits + chunk_bit_size - 1) \div chunk_bit_size) % U8

(* --------------------------- results ---------------------------------- *)

NoResult == [tag |-> "None", got |-> 0, expected |-> 0]

Ok(n) == [tag |-> "Ok", got |-> n, expected |-> 0]

Err(kind, got, expected) == [tag |-> kind, got |-> got, expected |-> expected]

(* ------------------------------ keys ---------------------------------- *)

\* supported_chunks_count that forgets the check of Z.
EkSupportedChunksCount_NoZ(k) ==
    LET n == Len(k.X)
    IN  IF Len(k.Y) # n
          THEN Err("MalformedEncryptionKey", Len(k.Y), n)
          ELSE Ok(n % U8)

\* EncryptionKey::supported_chunks_count
EkSupportedChunksCount(k) ==
    LET n == Len(k.X)
    IN  IF Len(k.Y) # n
          THEN Err("MalformedEncryptionKey", Len(k.Y), n)
          ELSE IF Len(k.Z) # n + 1
                 THEN Err("MalformedEncryptionKey", Len(k.Z), n)
                 ELSE Ok(n % U8)

\* EncryptionKey::validate
EkValidate(k) ==
    LET res == EkSupportedChunksCount(k)
    IN  IF res.tag = "Ok" THEN Ok(0) ELSE res

\* supported_chunks_count reporting (expected, got) instead of (got, expected).
DkSupportedChunksCount_Swapped(k) ==
    LET n == Len(k.V_1)
    IN  IF Len(k.V_2) # n
          THEN Err("MalformedDecryptionKey", n, Len(k.V_2))
          ELSE Ok(n % U8)

\* DecryptionKey::supported_chunks_count
DkSupportedChunksCount(k) ==
    LET n == Len(k.V_1)
    IN  IF Len(k.V_2) # n
          THEN Err("MalformedDecryptionKey", Len(k.V_2), n)
          ELSE Ok(n % U8)

\* DecryptionKey::validate
DkValidate(k) ==
    LET res == DkSupportedChunksCount(k)
    IN  IF res.tag = "Ok" THEN Ok(0) ELSE res

EmptyEk == [X_0 |-> 0, X |-> << >>, Y |-> << >>, Z |-> << >>, P_1 |-> 0, P_2 |-> 0]

EmptyDk == [V_0 |-> 0, V_1 |-> << >>, V_2 |-> << >>]

EmptySamples == [rho |-> 0, s |-> << >>, t |-> << >>, v |-> << >>]

(* ----------------------------- keygen --------------------------------- *)

\* The scalars keygen samples, in the order it draws them:
\* rho, s_0..s_{n-1}, t_0..t_n, v_0..v_{n-1}.
KeygenSamples(st, n) ==
    [rho |-> RngDraw(st, 1),
     s   |-> [i \in 1 .. n |-> RngDraw(st, 1 + i)],
     t   |-> [j \in 1 .. (n + 1) |-> RngDraw(st, 1 + n + j)],
     v   |-> [i \in 1 .. n |-> RngDraw(st, 2 + 2 * n + i)]]

KeygenDraws(n) == 3 * n + 2

\* X that pairs delta_g with the s_i in reverse order.
KeygenX_Reversed(delta_g, s) ==
    [i \in 1 .. Len(s) |-> GroupMul(delta_g, s[Len(s) + 1 - i])]

\* X = delta_g * s_i
KeygenX(delta_g, s) == [i \in 1 .. Len(s) |-> GroupMul(delta_g, s[i])]

\* Y that uses t_i instead of t_{i+1}.
KeygenY_Shifted(g_i, t, n) == [i \in 1 .. n |-> GroupMul(g_i[i], t[i])]

\* Y = g_i[i] * t[i + 1]   (t is 0-based in the code, 1-based here)
KeygenY(g_i, t, n) == [i \in 1 .. n |-> GroupMul(g_i[i], t[i + 1])]

\* Z built over 0..n instead of 0..=n.
KeygenZ_Short(H, t) == [j \in 1 .. (Len(t) - 1) |-> GroupMul(H, t[j])]

\* Z = H * t_i, i in 0..=n
KeygenZ(H, t) == [j \in 1 .. Len(t) |-> GroupMul(H, t[j])]

\* P_1 = delta_g * (t_0 + sum_j s_j * t_{j+1})
KeygenP1(delta_g, s, t, n) ==
    GroupMul(delta_g,
             FrAdd(t[1], FrSum([j \in 1 .. n |-> FrMul(s[j], t[j + 1])])))

\* P_2 = gamma_g * (1 + sum_i s_i)
KeygenP2(gamma_g, s) == GroupMul(gamma_g, FrAdd(1, FrSum(s)))

\* V_0 that leaves rho out.
KeygenV0_NoRho(H, rho) == H

\* V_0 = H * rho
KeygenV0(H, rho) == GroupMul(H, rho)

\* V_2 that multiplies the v_i into the group generator instead of V_0.
KeygenV2_NoRho(V_0, v) == [i \in 1 .. Len(v) |-> GroupMul(1, v[i])]

\* V_2 = V_0 * v_i
KeygenV2(V_0, v) == [i \in 1 .. Len(v) |-> GroupMul(V_0, v[i])]

\* V_1 that leaves s_i out of the product.
KeygenV1_NoS(H, s, v) == [i \in 1 .. Len(s) |-> GroupMul(H, v[i])]

\* V_1 = H * (s_i * v_i)
KeygenV1(H, s, v) ==
    [i \in 1 .. Len(s) |-> GroupMul(H, FrMul(s[i], v[i]))]

\* The length check written with >= instead of >.
KeygenTooShort_Ge(n, g_i) == n >= Len(g_i)

\* The length check keygen makes before sampling: n > g_i.len()
KeygenTooShort(n, g_i) == n > Len(g_i)

\* keygen(rng, chunk_bit_size, gens, g_i, delta_g, gamma_g)
keygen(st, chunk_bit_size, gens, g_i, delta_g, gamma_g) ==
    LET n == chunks_count(chunk_bit_size)
    IN  IF KeygenTooShort(n, g_i)
          THEN [res |-> Err("VectorShorterThanExpected", Len(g_i), n),
                rng |-> st,
                smp |-> EmptySamples,
                sk  |-> 0,
                ek  |-> EmptyEk,
                dk  |-> EmptyDk]
          ELSE LET smp == KeygenSamples(st, n)
                   V_0 == KeygenV0(gens.H, smp.rho)
               IN  [res |-> Ok(0),
                    rng |-> RngAfter(st, KeygenDraws(n)),
                    smp |-> smp,
                    sk  |-> smp.rho,
                    ek  |-> [X_0 |-> delta_g,
                             X   |-> KeygenX(delta_g, smp.s),
                             Y   |-> KeygenY(g_i, smp.t, n),
                             Z   |-> KeygenZ(gens.H, smp.t),
                             P_1 |-> KeygenP1(delta_g, smp.s, smp.t, n),
                             P_2 |-> KeygenP2(gamma_g, smp.s)],
                    dk  |-> [V_0 |-> V_0,
                             V_1 |-> KeygenV1(gens.H, smp.s, smp.v),
                             V_2 |-> KeygenV2(V_0, smp.v)]]

(* ------------------------- chunking codec ----------------------------- *)

\* Chunk bit sizes the codec supports.
SupportedChunkBitSizes == {1, 2, 4, 8, 16}

\* decompose that emits the digits least significant first.
decompose_LittleEndian(msg, chunk_bit_size) ==
    IF chunk_bit_size \notin SupportedChunkBitSizes
      THEN [res |-> Err("InvalidChunkBitSize", chunk_bit_size, 0), chunks |-> << >>]
      ELSE LET n     == chunks_count(chunk_bit_size)
               radix == Pow2(chunk_bit_size)
           IN  [res    |-> Ok(n),
                chunks |-> [i \in 1 .. n |->
                              (msg \div Pow2(chunk_bit_size * (i - 1))) % radix]]

\* decompose(msg, b): the n = chunks_count(b) base-2^b digits of msg,
\* most significant first.
decompose(msg, chunk_bit_size) ==
    IF chunk_bit_size \notin SupportedChunkBitSizes
      THEN [res |-> Err("InvalidChunkBitSize", chunk_bit_size, 0), chunks |-> << >>]
      ELSE LET n     == chunks_count(chunk_bit_size)
               radix == Pow2(chunk_bit_size)
           IN  [res    |-> Ok(n),
                chunks |-> [i \in 1 .. n |->
                              (msg \div Pow2(chunk_bit_size * (n - i))) % radix]]

\* compose(chunks, b) = sum_i chunk_i * 2^(b*(n-1-i)) mod q
compose(chunks, chunk_bit_size) ==
    LET n == Len(chunks)
    IN  FrSum([i \in 1 .. n |->
                 FrMul(chunks[i] % q, Pow2(chunk_bit_size * (n - i)) % q)])

(* ---------------------------- encryption ------------------------------ *)

EmptyCt == [X_0 |-> 0, C |-> << >>, commitment |-> 0]

\* c_i = r * X_i + chunk_i * Y_i
EncryptChunk(r, X_i, chunk, Y_i) ==
    FrAdd(GroupMul(X_i, r), GroupMul(Y_i, chunk % q))

\* commitment blinded with X_0 instead of P_1.
EncryptCommitment_X0(r, k, chunks) ==
    FrAdd(GroupMul(k.X_0, r),
          FrSum([i \in 1 .. Len(chunks) |-> GroupMul(k.Y[i], chunks[i] % q)]))

\* commitment = r * P_1 + sum_i chunk_i * Y_i
EncryptCommitment(r, k, chunks) ==
    FrAdd(GroupMul(k.P_1, r),
          FrSum([i \in 1 .. Len(chunks) |-> GroupMul(k.Y[i], chunks[i] % q)]))

\* encrypt(rng, msg, EK, b): decompose, sample r, build the ciphertext.
encrypt(st, msg, k, chunk_bit_size) ==
    LET d == decompose(msg, chunk_bit_size)
        r == RngDraw(st, 1)
    IN  IF d.res.tag # "Ok"
          THEN [res |-> d.res, rng |-> st, r |-> 0, ct |-> EmptyCt]
          ELSE [res |-> Ok(0),
                rng |-> RngAfter(st, 1),
                r   |-> r,
                ct  |-> [X_0 |-> GroupMul(k.X_0, r),
                         C   |-> [i \in 1 .. Len(d.chunks) |->
                                    EncryptChunk(r, k.X[i], d.chunks[i], k.Y[i])],
                         commitment |-> EncryptCommitment(r, k, d.chunks)]]

(* ---------------------------- decryption ------------------------------ *)

\* GT is written additively: a quotient of pairings is a difference.
\* T_i = e(c_i, V_2[i]) / e(rho * X_0', V_1[i])
DecryptTarget(c, i, rho, d) ==
    FrSub(Pairing(c.C[i], d.V_2[i]),
          Pairing(GroupMul(c.X_0, rho), d.V_1[i]))

\* The base whose power chunk_i the target is: e(Y_i, V_2[i]).
DecryptBase(k, d, i) == Pairing(k.Y[i], d.V_2[i])

\* Candidates k in 0 .. 2^b - 1 with base^k = target.
DiscreteLogs(base, target, chunk_bit_size) ==
    {x \in 0 .. (Pow2(chunk_bit_size) - 1) : FrMul(base, x % q) = target}

Min(S) == CHOOSE x \in S : \A y \in S : x <= y

\* Index of the first chunk whose search finds nothing, 0 if every one does.
RECURSIVE FirstUnsolved(_, _, _, _, _, _)
FirstUnsolved(c, rho, k, d, chunk_bit_size, i) ==
    IF i > Len(c.C)
      THEN 0
      ELSE IF DiscreteLogs(DecryptBase(k, d, i), DecryptTarget(c, i, rho, d),
                           chunk_bit_size) = {}
             THEN i
             ELSE FirstUnsolved(c, rho, k, d, chunk_bit_size, i + 1)

\* decrypt(SK, DK, ct, b): per-chunk search, recomposition, transcript nu.
decrypt(c, rho, k, d, chunk_bit_size) ==
    LET bad == FirstUnsolved(c, rho, k, d, chunk_bit_size, 1)
    IN  IF Len(c.C) # Len(d.V_1) \/ Len(c.C) # Len(d.V_2) \/ Len(c.C) # Len(k.Y)
          THEN [res |-> Err("MessageNotInChunks", Len(c.C), Len(d.V_1)),
                msg |-> 0, nu |-> 0]
          ELSE IF bad # 0
                 THEN [res |-> Err("CouldNotFindDiscreteLog", bad - 1, 0),
                       msg |-> 0, nu |-> 0]
                 ELSE LET chunks == [i \in 1 .. Len(c.C) |->
                                       Min(DiscreteLogs(DecryptBase(k, d, i),
                                                        DecryptTarget(c, i, rho, d),
                                                        chunk_bit_size))]
                      IN  [res |-> Ok(0),
                           msg |-> compose(chunks, chunk_bit_size),
                           nu  |-> c.X_0]

(* ----------------------- decryption verification ---------------------- *)

\* e(c_i - chunk_i * Y_i, V_0) = e(nu, V_2[i])
VerifyDecryptionChunk(c, chunk, nu, k, d, i) ==
    Pairing(FrSub(c.C[i], GroupMul(k.Y[i], chunk % q)), d.V_0)
      = Pairing(nu, d.V_2[i])

\* verify_decryption(msg, nu, b, DK, EK) on ciphertext c
verify_decryption(c, msg, nu, chunk_bit_size, k, d) ==
    LET dm == decompose(msg, chunk_bit_size)
    IN  IF dm.res.tag # "Ok"
          THEN dm.res
          ELSE IF Len(dm.chunks) # Len(c.C)
                 THEN Err("MessageNotInChunks", Len(dm.chunks), Len(c.C))
                 ELSE IF \A i \in 1 .. Len(c.C) :
                            VerifyDecryptionChunk(c, dm.chunks[i], nu, k, d, i)
                        THEN Ok(0)
                        ELSE Err("InvalidDecryptionVerification", 0, 0)

(* -------------------- chunked Pedersen commitment --------------------- *)

\* commitment_key with the powers of the radix in little-endian order.
commitment_key_LittleEndian(cgens, chunk_bit_size) ==
    LET n == chunks_count(chunk_bit_size)
    IN  [i \in 1 .. (n + 1) |->
           IF i <= n
             THEN GroupMul(cgens.G, Pow2(chunk_bit_size * (i - 1)) % q)
             ELSE cgens.H]

\* commitment_key(gens, b): (2^(b*(n-1-i)) * G')_i || H'
commitment_key(cgens, chunk_bit_size) ==
    LET n == chunks_count(chunk_bit_size)
    IN  [i \in 1 .. (n + 1) |->
           IF i <= n
             THEN GroupMul(cgens.G, Pow2(chunk_bit_size * (n - i)) % q)
             ELSE cgens.H]

\* <bases, scalars>
InnerProduct(bases, scalars) ==
    FrSum([i \in 1 .. Len(bases) |-> GroupMul(bases[i], scalars[i] % q)])

\* ChunkedCommitment::new(msg, blinding, b, gens)
ChunkedCommitment(msg, blinding, chunk_bit_size, cgens) ==
    LET d == decompose(msg, chunk_bit_size)
    IN  IF d.res.tag # "Ok"
          THEN [res |-> d.res, comm |-> 0]
          ELSE [res  |-> Ok(0),
                comm |-> InnerProduct(commitment_key(cgens, chunk_bit_size),
                                      Append(d.chunks, blinding))]

\* msg * G' + blinding * H'
SingleCommitment(msg, blinding, cgens) ==
    FrAdd(GroupMul(cgens.G, msg), GroupMul(cgens.H, blinding))

(* ------------------------------ state --------------------------------- *)

VARIABLES
    rng,             \* state of the caller's random number generator
    chunk_bit_size,  \* b passed to keygen and used by the later calls
    gens,            \* EncryptionGens: G in G1, H in G2
    g_i,             \* G1 vector taken from the SNARK SRS
    delta_g,         \* delta * G from the SRS
    gamma_g,         \* gamma * G from the SRS
    keygenRes,       \* result tag of keygen
    smp,             \* the scalars keygen sampled
    sk, ek, dk,      \* SecretKey, EncryptionKey, DecryptionKey
    chk,             \* results of the key checks
    msg, r, ct,      \* message, encryption randomness, ciphertext
    encRes,          \* result tag of encrypt
    dec,             \* result of decrypt: res, msg, nu
    vd,              \* verify_decryption call: claimed msg, nu and result
    cm,              \* chunked commitment call: inputs and both forms
    again,           \* a second encryption of msg and its decryption
    codec            \* decompose / compose of cm.msg with cm.b

vars == << rng, chunk_bit_size, gens, g_i, delta_g, gamma_g, keygenRes, smp,
           sk, ek, dk, chk, msg, r, ct, encRes, dec, vd, cm, again, codec >>

ChunkBitSizes == 1 .. MaxChunkBitSize

Seeds == 1 .. MaxSeed

\* Non-identity G1 vectors of every length up to MaxGiLen.
GiVectors ==
    {[k \in 1 .. L |-> 1 + ((a * k) % (q - 1))] : L \in 0 .. MaxGiLen, a \in 1 .. 2}

GensSet == {[G |-> 1, H |-> h] : h \in {1, 3}}

DeltaSet == {2, 3}

GammaSet == {1, 5}

NoChecks == [ekCount |-> NoResult, ekValid |-> NoResult,
             dkCount |-> NoResult, dkValid |-> NoResult]

NoDec == [res |-> NoResult, msg |-> 0, nu |-> 0]

NoVd == [msg |-> 0, nu |-> 0, res |-> NoResult]

NoAgain == [res |-> NoResult, r |-> 0, ct |-> EmptyCt, dec |-> NoDec]

NoCodec == [res |-> NoResult, chunks |-> << >>, composed |-> 0, done |-> FALSE]

NoCm == [msg |-> 0, blinding |-> 0, b |-> 1, gens |-> [G |-> 1, H |-> 1],
         res |-> NoResult, chunked |-> 0, single |-> 0]

Blank ==
    /\ chunk_bit_size = 1
    /\ gens = [G |-> 1, H |-> 1]
    /\ g_i = << >>
    /\ delta_g = 0
    /\ gamma_g = 0
    /\ keygenRes = NoResult
    /\ smp = EmptySamples
    /\ sk = 0
    /\ chk = NoChecks
    /\ msg = 0
    /\ r = 0
    /\ ct = EmptyCt
    /\ encRes = NoResult
    /\ dec = NoDec
    /\ vd = NoVd
    /\ again = NoAgain
    /\ codec = NoCodec

(* --------------- keygen, encrypt, decrypt, verify ---------------------- *)

Init ==
    /\ rng \in Seeds
    /\ ek = EmptyEk
    /\ dk = EmptyDk
    /\ cm = NoCm
    /\ Blank

Keygen ==
    /\ keygenRes.tag = "None"
    /\ \E b \in ChunkBitSizes, gs \in GensSet, gv \in GiVectors,
          delta \in DeltaSet, gamma \in GammaSet :
          LET dg  == GroupMul(gs.G, delta)
              gg  == GroupMul(gs.G, gamma)
              out == keygen(rng, b, gs, gv, dg, gg)
          IN  /\ chunk_bit_size' = b
              /\ gens' = gs
              /\ g_i' = gv
              /\ delta_g' = dg
              /\ gamma_g' = gg
              /\ keygenRes' = out.res
              /\ rng' = out.rng
              /\ smp' = out.smp
              /\ sk' = out.sk
              /\ ek' = out.ek
              /\ dk' = out.dk
    /\ UNCHANGED << chk, msg, r, ct, encRes, dec, vd, cm, again, codec >>

Encrypt ==
    /\ keygenRes.tag = "Ok"
    /\ encRes.tag = "None"
    /\ \E m \in Fr :
          LET out == encrypt(rng, m, ek, chunk_bit_size)
          IN  /\ msg' = m
              /\ encRes' = out.res
              /\ rng' = out.rng
              /\ r' = out.r
              /\ ct' = out.ct
    /\ UNCHANGED << chunk_bit_size, gens, g_i, delta_g, gamma_g, keygenRes, smp,
                    sk, ek, dk, chk, dec, vd, cm, again, codec >>

Decrypt ==
    /\ encRes.tag = "Ok"
    /\ dec.res.tag = "None"
    /\ dec' = decrypt(ct, sk, ek, dk, chunk_bit_size)
    /\ UNCHANGED << rng, chunk_bit_size, gens, g_i, delta_g, gamma_g, keygenRes,
                    smp, sk, ek, dk, chk, msg, r, ct, encRes, vd, cm, again, codec >>

VerifyDecryption ==
    /\ dec.res.tag = "Ok"
    /\ vd.res.tag = "None"
    /\ \E m \in Fr, nu \in Fr :
          vd' = [msg |-> m, nu |-> nu,
                 res |-> verify_decryption(ct, m, nu, chunk_bit_size, ek, dk)]
    /\ UNCHANGED << rng, chunk_bit_size, gens, g_i, delta_g, gamma_g, keygenRes,
                    smp, sk, ek, dk, chk, msg, r, ct, encRes, dec, cm, again, codec >>

\* The same message encrypted a second time under the same key, with the
\* next randomness of the generator.
EncryptAgain ==
    /\ encRes.tag = "Ok"
    /\ again.res.tag = "None"
    /\ LET out == encrypt(rng, msg, ek, chunk_bit_size)
       IN  /\ again' = [again EXCEPT !.res = out.res, !.r = out.r, !.ct = out.ct]
           /\ rng' = out.rng
    /\ UNCHANGED << chunk_bit_size, gens, g_i, delta_g, gamma_g, keygenRes, smp,
                    sk, ek, dk, chk, msg, r, ct, encRes, dec, vd, cm, codec >>

DecryptAgain ==
    /\ again.res.tag = "Ok"
    /\ again.dec.res.tag = "None"
    /\ again' = [again EXCEPT
                   !.dec = decrypt(again.ct, sk, ek, dk, chunk_bit_size)]
    /\ UNCHANGED << rng, chunk_bit_size, gens, g_i, delta_g, gamma_g, keygenRes,
                    smp, sk, ek, dk, chk, msg, r, ct, encRes, dec, vd, cm, codec >>

Next ==
    \/ Keygen
    \/ Encrypt
    \/ Decrypt
    \/ VerifyDecryption
    \/ EncryptAgain
    \/ DecryptAgain

Spec == Init /\ [][Next]_vars

(* ----------------- checks of keys received from outside --------------- *)

\* Keys have public fields and a deserializer: a caller can hold a key whose
\* vectors have any lengths.
\* Their lengths: the short ones, and the first two that do not fit a u8.
ForeignLens == (0 .. MaxVecLen) \cup {U8, U8 + 1}

ForeignVec == {[k \in 1 .. L |-> 1] : L \in ForeignLens}

InitKeys ==
    /\ rng = 1
    /\ ek \in [X_0 : {1}, X : ForeignVec, Y : ForeignVec, Z : ForeignVec,
               P_1 : {1}, P_2 : {1}]
    /\ dk \in [V_0 : {1}, V_1 : ForeignVec, V_2 : ForeignVec]
    /\ cm = NoCm
    /\ Blank

KeyFrame ==
    UNCHANGED << rng, chunk_bit_size, gens, g_i, delta_g, gamma_g, keygenRes,
                 smp, sk, ek, dk, msg, r, ct, encRes, dec, vd, cm, again, codec >>

EkCount ==
    /\ chk' = [chk EXCEPT !.ekCount = EkSupportedChunksCount(ek)]
    /\ KeyFrame

EkCheck ==
    /\ chk' = [chk EXCEPT !.ekValid = EkValidate(ek)]
    /\ KeyFrame

DkCount ==
    /\ chk' = [chk EXCEPT !.dkCount = DkSupportedChunksCount(dk)]
    /\ KeyFrame

DkCheck ==
    /\ chk' = [chk EXCEPT !.dkValid = DkValidate(dk)]
    /\ KeyFrame

NextKeys == EkCount \/ EkCheck \/ DkCount \/ DkCheck

SpecKeys == InitKeys /\ [][NextKeys]_vars

(* ------------------------ chunked commitment -------------------------- *)

CommitmentGensSet == {[G |-> g, H |-> h] : g \in {1, 2}, h \in {3, 5}}

InitCommitment ==
    /\ rng = 1
    /\ ek = EmptyEk
    /\ dk = EmptyDk
    /\ \E m \in Fr, bl \in Fr, b \in ChunkBitSizes, cg \in CommitmentGensSet :
          cm = [NoCm EXCEPT !.msg = m, !.blinding = bl, !.b = b, !.gens = cg]
    /\ Blank

Commit ==
    /\ cm.res.tag = "None"
    /\ LET out == ChunkedCommitment(cm.msg, cm.blinding, cm.b, cm.gens)
       IN  cm' = [cm EXCEPT !.res = out.res,
                            !.chunked = out.comm,
                            !.single = SingleCommitment(cm.msg, cm.blinding, cm.gens)]
    /\ UNCHANGED << rng, chunk_bit_size, gens, g_i, delta_g, gamma_g, keygenRes,
                    smp, sk, ek, dk, chk, msg, r, ct, encRes, dec, vd, again, codec >>

\* decompose(cm.msg, cm.b)
Decompose ==
    /\ codec.res.tag = "None"
    /\ LET out == decompose(cm.msg, cm.b)
       IN  codec' = [codec EXCEPT !.res = out.res, !.chunks = out.chunks]
    /\ UNCHANGED << rng, chunk_bit_size, gens, g_i, delta_g, gamma_g, keygenRes,
                    smp, sk, ek, dk, chk, msg, r, ct, encRes, dec, vd, cm, again >>

\* compose(chunks, cm.b) on the digits decompose returned
Compose ==
    /\ codec.res.tag = "Ok"
    /\ ~codec.done
    /\ codec' = [codec EXCEPT !.composed = compose(codec.chunks, cm.b),
                              !.done = TRUE]
    /\ UNCHANGED << rng, chunk_bit_size, gens, g_i, delta_g, gamma_g, keygenRes,
                    smp, sk, ek, dk, chk, msg, r, ct, encRes, dec, vd, cm, again >>

NextCommitment == Commit \/ Decompose \/ Compose

SpecCommitment == InitCommitment /\ [][NextCommitment]_vars

(* ------------------------------ claims --------------------------------- *)

\* ceil(m / b) computed from its defining inequalities.
CeilDiv(m, b) == CHOOSE k \in 0 .. m : k * b >= m /\ (k = 0 \/ (k - 1) * b < m)

C3_HonestDecryptionVerifies ==
    (vd.res.tag # "None" /\ vd.msg = dec.msg /\ vd.nu = dec.nu) =>
        vd.res.tag = "Ok"

\* C5 as stated: verify_decryption with a claimed message or transcript other
\* than the honest one fails with InvalidDecryptionVerification.
C5_TamperedDecryptionRejected ==
    (vd.res.tag # "None" /\ (vd.msg # dec.msg \/ vd.nu # dec.nu)) =>
        vd.res.tag = "InvalidDecryptionVerification"

\* C6: a successful keygen for chunk bit size b returns keys with
\* |X| = |Y| = n, |Z| = n + 1, |V_1| = |V_2| = n for n = ceil(m / b); both
\* validate calls succeed and both supported_chunks_count calls return n.
C6_KeyShape ==
    keygenRes.tag = "Ok" =>
        LET n == CeilDiv(size_in_bits, chunk_bit_size)
        IN  /\ Len(ek.X) = n
            /\ Len(ek.Y) = n
            /\ Len(ek.Z) = n + 1
            /\ Len(dk.V_1) = n
            /\ Len(dk.V_2) = n
            /\ EkValidate(ek).tag = "Ok"
            /\ DkValidate(dk).tag = "Ok"
            /\ EkSupportedChunksCount(ek) = Ok(n)
            /\ DkSupportedChunksCount(dk) = Ok(n)

C6_Witness ==
    /\ keygenRes.tag = "Ok"
    /\ Len(ek.X) >= 2
    /\ Len(g_i) > Len(ek.X)

\* C7: keygen fails exactly when g_i has fewer than n = chunks_count(b)
\* elements; it then returns VectorShorterThanExpected(|g_i|, n), no key
\* material, and leaves the random number generator untouched.  With
\* |g_i| >= n it succeeds.
C7_KeygenFailsIffShort ==
    [][(keygenRes.tag = "None" /\ keygenRes'.tag # "None") =>
          LET n == CeilDiv(size_in_bits, chunk_bit_size')
          IN  IF Len(g_i') < n
                THEN /\ keygenRes' = Err("VectorShorterThanExpected", Len(g_i'), n)
                     /\ rng' = rng
                     /\ sk' = 0
                     /\ ek' = EmptyEk
                     /\ dk' = EmptyDk
                ELSE keygenRes'.tag = "Ok"]_vars

C7_Witness ==
    /\ keygenRes.tag = "VectorShorterThanExpected"
    /\ Len(g_i) >= 1
    /\ Len(ek.X) = 0

\* C8: EncryptionKey::validate and supported_chunks_count succeed exactly
\* when |Y| = |X| and |Z| = |X| + 1, reject every other combination with
\* MalformedEncryptionKey, and leave the key as it was.
C8_EkValidateIffShape ==
    [][LET good == Len(ek.Y) = Len(ek.X) /\ Len(ek.Z) = Len(ek.X) + 1
           want == IF good THEN "Ok" ELSE "MalformedEncryptionKey"
       IN  /\ chk'.ekValid # chk.ekValid =>
                 (ek' = ek /\ chk'.ekValid.tag = want)
           /\ chk'.ekCount # chk.ekCount =>
                 (ek' = ek /\ chk'.ekCount.tag = want)]_vars

C8_Witness ==
    /\ chk.ekValid.tag = "MalformedEncryptionKey"
    /\ chk.ekCount.tag = "MalformedEncryptionKey"
    /\ Len(ek.Y) = Len(ek.X)
    /\ Len(ek.Z) # Len(ek.X) + 1

\* C9: DecryptionKey::validate and supported_chunks_count succeed exactly
\* when |V_2| = |V_1|; a mismatch is rejected with
\* MalformedDecryptionKey(|V_2|, |V_1|).
C9_DkValidateIffShape ==
    LET bad == Err("MalformedDecryptionKey", Len(dk.V_2), Len(dk.V_1))
    IN  /\ chk.dkValid.tag # "None" =>
              IF Len(dk.V_2) = Len(dk.V_1)
                THEN chk.dkValid.tag = "Ok"
                ELSE chk.dkValid = bad
        /\ chk.dkCount.tag # "None" =>
              IF Len(dk.V_2) = Len(dk.V_1)
                THEN chk.dkCount.tag = "Ok"
                ELSE chk.dkCount = bad

C9_Witness ==
    /\ chk.dkValid.tag = "MalformedDecryptionKey"
    /\ chk.dkCount.tag = "MalformedDecryptionKey"
    /\ Len(dk.V_2) > Len(dk.V_1)
    /\ Len(dk.V_1) >= 1

\* C10: for every message, blinding and supported b the chunked commitment
\* <(2^(b(n-1-i)) G')_i || H', decompose(msg, b) || blinding> is the same
\* group element as the single-scalar commitment msg G' + blinding H'.
C10_ChunkedEqualsSingle ==
    (cm.res.tag # "None" /\ cm.b \in SupportedChunkBitSizes) =>
        /\ cm.res.tag = "Ok"
        /\ cm.chunked = cm.single

C10_Witness ==
    /\ cm.res.tag = "Ok"
    /\ cm.b = 1
    /\ cm.msg >= 5
    /\ cm.blinding # 0
    /\ cm.gens.G # 1

\* The integer a digit vector denotes when read most significant first.
RECURSIVE DigitsValue(_, _, _)
DigitsValue(digits, radix, acc) ==
    IF digits = << >>
      THEN acc
      ELSE DigitsValue(Tail(digits), radix, acc * radix + Head(digits))

\* C11: for every msg in [0, q) and supported b, decompose(msg, b) yields
\* n = ceil(m / b) digits in [0, 2^b), most significant first, and
\* compose(decompose(msg, b), b) = msg.
C11_DecomposeRoundTrip ==
    (codec.res.tag # "None" /\ cm.b \in SupportedChunkBitSizes) =>
        /\ codec.res.tag = "Ok"
        /\ Len(codec.chunks) = CeilDiv(size_in_bits, cm.b)
        /\ \A i \in 1 .. Len(codec.chunks) :
              codec.chunks[i] \in 0 .. (Pow2(cm.b) - 1)
        /\ DigitsValue(codec.chunks, Pow2(cm.b), 0) = cm.msg
        /\ codec.done => codec.composed = cm.msg

C11_Witness ==
    /\ codec.done
    /\ cm.b = 2
    /\ cm.msg = 6
    /\ codec.chunks = << 1, 2 >>

\* bases_comm_ct = Y || P_1 and wit_comm_ct = chunks || r, as the prover
\* assembles them for the commitment statement.
bases_comm_ct == Append(ek.Y, ek.P_1)

wit_comm_ct == Append(decompose(msg, chunk_bit_size).chunks, r)

\* C12: the commitment of encrypt(msg; r) is the multi-scalar product of
\* Y || P_1 with decompose(msg, b) || r, for the same r as X_0' = r * X_0
\* and the same chunks as the c_i = r * X_i + chunk_i * Y_i.
C12_CommitmentIsMsm ==
    encRes.tag = "Ok" =>
        /\ Len(wit_comm_ct) = Len(bases_comm_ct)
        /\ ct.commitment = InnerProduct(bases_comm_ct, wit_comm_ct)
        /\ ct.X_0 = GroupMul(ek.X_0, r)
        /\ Len(ct.C) = Len(ek.X)
        /\ \A i \in 1 .. Len(ct.C) :
              ct.C[i] = FrAdd(GroupMul(ek.X[i], r),
                              GroupMul(ek.Y[i], wit_comm_ct[i]))

C12_Witness ==
    /\ encRes.tag = "Ok"
    /\ Len(ct.C) = 3
    /\ msg = 5
    /\ r > 1
    /\ ek.P_1 # ek.X_0

C14_EncryptionKeyComponents ==
    keygenRes.tag = "Ok" =>
        LET n == Len(smp.s)
        IN  /\ Len(smp.t) = n + 1
            /\ Len(ek.X) = n /\ Len(ek.Y) = n /\ Len(ek.Z) = n + 1
            /\ ek.X_0 = delta_g
            /\ \A i \in 1 .. n :
                  /\ ek.X[i] = GroupMul(delta_g, smp.s[i])
                  /\ ek.Y[i] = GroupMul(g_i[i], smp.t[i + 1])
            /\ \A j \in 1 .. (n + 1) : ek.Z[j] = GroupMul(gens.H, smp.t[j])
            /\ ek.P_1 = GroupMul(delta_g,
                          FrAdd(smp.t[1],
                                FrSum([j \in 1 .. n |->
                                         FrMul(smp.s[j], smp.t[j + 1])])))
            /\ ek.P_1 = FrAdd(GroupMul(ek.X_0, smp.t[1]),
                              FrSum([j \in 1 .. n |->
                                       GroupMul(ek.X[j], smp.t[j + 1])]))

C14_Witness ==
    /\ keygenRes.tag = "Ok"
    /\ Len(smp.s) = 3
    /\ Len(g_i) = 4
    /\ smp.t[1] # smp.t[2]
    /\ gens.H # 1

\* C16: keygen returns SK = rho, V_0 = rho * H, V_1[i] = (s_i v_i) * H and
\* V_2[i] = (rho v_i) * H, with the s_i of X_i and the rho of SK.
C16_DecryptionKeyComponents ==
    keygenRes.tag = "Ok" =>
        LET n == Len(smp.s)
        IN  /\ Len(smp.v) = n
            /\ Len(dk.V_1) = n /\ Len(dk.V_2) = n
            /\ sk = smp.rho
            /\ dk.V_0 = GroupMul(gens.H, sk)
            /\ \A i \in 1 .. n :
                  /\ dk.V_1[i] = GroupMul(gens.H, FrMul(smp.s[i], smp.v[i]))
                  /\ dk.V_2[i] = GroupMul(gens.H, FrMul(sk, smp.v[i]))
                  /\ ek.X[i] = GroupMul(delta_g, smp.s[i])

C16_Witness ==
    /\ keygenRes.tag = "Ok"
    /\ Len(smp.s) >= 2
    /\ sk > 1
    /\ smp.s[1] # smp.s[2]
    /\ smp.v[1] # smp.v[2]

\* C19: for every chunk index i the keys are index-aligned:
\* e(X_i, V_2[i]) = e(X_0, V_1[i])^rho, both with exponent
\* delta * s_i * rho * v_i.
C19_IndexAligned ==
    keygenRes.tag = "Ok" =>
        /\ Len(dk.V_1) = Len(ek.X)
        /\ Len(dk.V_2) = Len(ek.X)
        /\ \A i \in 1 .. Len(ek.X) :
              LET e == FrMul(FrMul(Pairing(delta_g, gens.H), smp.s[i]),
                             FrMul(sk, smp.v[i]))
              IN  /\ Pairing(ek.X[i], dk.V_2[i]) = e
                  /\ FrMul(Pairing(ek.X_0, dk.V_1[i]), sk) = e

C19_Witness ==
    /\ keygenRes.tag = "Ok"
    /\ Len(ek.X) = 3
    /\ sk > 1
    /\ smp.s[1] # smp.s[3]
    /\ Pairing(ek.X[1], dk.V_2[1]) # Pairing(ek.X[2], dk.V_2[2])

\* C15 as stated: given delta * G and gamma * G, keygen returns
\* P_2 = (-gamma) * (1 + sum_i s_i) * G, that is -(1 + sum_i s_i) * gamma_g.
C15_P2Negated ==
    keygenRes.tag = "Ok" =>
        ek.P_2 = FrNeg(GroupMul(gamma_g, FrAdd(1, FrSum(smp.s))))

\* C17 as stated: a rejection by EncryptionKey::supported_chunks_count
\* carries got = the length of the offending vector and expected = the
\* length it must have: |X| for Y, |X| + 1 for Z.
C17_ErrorCarriesGotExpected ==
    chk.ekCount.tag = "MalformedEncryptionKey" =>
        IF Len(ek.Y) # Len(ek.X)
          THEN chk.ekCount.got = Len(ek.Y) /\ chk.ekCount.expected = Len(ek.X)
          ELSE chk.ekCount.got = Len(ek.Z) /\ chk.ekCount.expected = Len(ek.X) + 1

\* C18 as stated: on a length-consistent key supported_chunks_count returns
\* the key's chunk count, |X| or |V_1|, whatever the vector length.
C18_CountIsChunkCount ==
    /\ chk.ekCount.tag = "Ok" => chk.ekCount.got = Len(ek.X)
    /\ chk.dkCount.tag = "Ok" => chk.dkCount.got = Len(dk.V_1)

====
